---- MODULE Spec2Model ----
(***************************************************************************)
(* A model of the vdev read-ahead cache (zfs/lib/libzpool/vdev_cache.c).   *)
(*                                                                         *)
(* Threads of control: each read zio runs vdev_cache_read; each child      *)
(* (fill) zio is issued, read from the device and completed through        *)
(* vdev_cache_fill; a writer updates the device and then calls             *)
(* vdev_cache_write; vdev_cache_purge empties the cache.  vc_lock is       *)
(* modelled explicitly; each action is one maximal piece of a handler that *)
(* runs without waiting for the lock.                                      *)
(*                                                                         *)
(* Sizes are scaled: a cache block holds VCBS = 2 bytes, the largest       *)
(* cacheable read is 2 bytes and the cache size is 0 or one block.         *)
(***************************************************************************)
EXTENDS Integers, Sequences, FiniteSets, TLC

\* ---------------------------------------------------------------- bounds
MaxReq == 3
MaxWrites == 1
MaxTick == 1
NBlocks == 3
MaxInFlight == 2

\* ------------------------------------------------------ program constants
zfs_vdev_cache_max == 2
zfs_vdev_cache_bshift == 1
VCBS == 2 ^ zfs_vdev_cache_bshift
\* values the tunable zfs_vdev_cache_size is given (in bytes)
CacheSizes == {0, VCBS}

EIO == 5
NULL == 0
Junk == -1

ReqIds == 1..MaxReq
DevSize == NBlocks * VCBS
Declines == {"EINVAL", "EOVERFLOW", "EXDEV", "ESTALE", "ENOMEM"}

VARIABLES
    zfs_vdev_cache_size, \* the tunable
    lbolt,               \* the clock tick
    dev,                 \* device contents, byte offset -> value
    predev,              \* history: the device contents before the last write
    vc_lock,             \* holder of vc->vc_lock, or NoOne
    ve,                  \* entry storage: id -> vdev_cache_entry_t
    vc_offset_tree,      \* entry ids in vdev_cache_offset_compare order
    vc_lastused_tree,    \* entry ids in vdev_cache_lastused_compare order
    zio,                 \* the read zios offered to vdev_cache_read
    fio,                 \* the child (fill) zios, by the id of the zio that missed
    wr,                  \* the writer: device write, then vdev_cache_write
    nwrites,             \* writes started so far
    vdc_stats,           \* delegations, hits, misses
    attached,            \* history: per child, the zios in the order attached
    resumed              \* history: per child, the zios in the order resumed

vars == <<zfs_vdev_cache_size, lbolt, dev, predev, vc_lock, ve, vc_offset_tree,
          vc_lastused_tree, zio, fio, wr, nwrites, vdc_stats, attached, resumed>>

NoOne == <<"none", 0>>

\* ------------------------------------------------------------- P2 macros
P2ALIGN(x, a) == x - (x % a)
P2PHASE(x, a) == x % a
P2CROSS(x, y, a) == (x \div a) # (y \div a)
P2ROUNDUP(x, a) == ((x + a - 1) \div a) * a
MAX(a, b) == IF a < b THEN b ELSE a
MIN(a, b) == IF a < b THEN a ELSE b

\* ------------------------------------------------------------ the records
JunkBuf == [k \in 0..(VCBS - 1) |-> Junk]

NoEntry == [alloc |-> FALSE, ve_offset |-> 0, ve_lastused |-> 0, ve_hits |-> 0,
            ve_data |-> JunkBuf, ve_fill_io |-> NULL, ve_missed_update |-> 0]

NewZio == [pc |-> "new", io_offset |-> 0, io_size |-> 0, dont_cache |-> FALSE,
           io_data |-> <<>>, io_error |-> 0, io_delegate_next |-> NULL,
           bypass |-> FALSE, ret |-> "none", copies |-> 0, executed |-> 0]

\* a child zio; io_data is the block the device returned for it (the buffer it
\* is read into is the entry's ve_data, line 320)
NoChild == [state |-> "none", io_offset |-> 0, io_error |-> 0, io_data |-> JunkBuf,
            io_delegate_list |-> NULL, io_private |-> NULL]

IdleWrite == [pc |-> "idle", io_offset |-> 0, io_size |-> 0, io_data |-> <<>>]

\* ------------------------------------------------------- the two AVL trees
vdev_cache_offset_compare(s, a1, a2) ==
    IF s[a1].ve_offset < s[a2].ve_offset THEN -1
    ELSE IF s[a1].ve_offset > s[a2].ve_offset THEN 1
    ELSE 0

vdev_cache_lastused_compare(s, a1, a2) ==
    IF s[a1].ve_lastused < s[a2].ve_lastused THEN -1
    ELSE IF s[a1].ve_lastused > s[a2].ve_lastused THEN 1
    ELSE vdev_cache_offset_compare(s, a1, a2)

\* the comparison function avl_create gave the tree named t
avl_compar(t, s, a1, a2) ==
    IF t = "vc_lastused_tree" THEN vdev_cache_lastused_compare(s, a1, a2)
    ELSE vdev_cache_offset_compare(s, a1, a2)

\* avl_add to the tree named t: the node goes after every node that compares
\* smaller
avl_add(t, tree, s, e) ==
    LET k == Cardinality({i \in 1..Len(tree) : avl_compar(t, s, tree[i], e) < 0})
    IN  SubSeq(tree, 1, k) \o <<e>> \o SubSeq(tree, k + 1, Len(tree))

avl_remove(tree, e) == SelectSeq(tree, LAMBDA x : x # e)

avl_first(tree) == IF tree = <<>> THEN NULL ELSE tree[1]

avl_numnodes(tree) == Len(tree)

\* avl_find on the offset tree: the node whose key equals the search key
avl_find(tree, s, offset) ==
    LET hit == {i \in 1..Len(tree) : s[tree[i]].ve_offset = offset}
    IN  IF hit = {} THEN NULL ELSE tree[CHOOSE i \in hit : \A j \in hit : i <= j]

\* ----------------------------------------------------------------- Init
Init ==
    /\ zfs_vdev_cache_size \in CacheSizes
    /\ lbolt = 0
    /\ dev = [i \in 0..(DevSize - 1) |-> i]
    /\ predev = dev
    /\ vc_lock = NoOne
    /\ ve = [e \in ReqIds |-> NoEntry]
    /\ vc_offset_tree = <<>>
    /\ vc_lastused_tree = <<>>
    /\ zio = [r \in ReqIds |-> NewZio]
    /\ fio = [c \in ReqIds |-> NoChild]
    /\ wr = IdleWrite
    /\ nwrites = 0
    /\ vdc_stats = [delegations |-> 0, hits |-> 0, misses |-> 0]
    /\ attached = [c \in ReqIds |-> <<>>]
    /\ resumed = [c \in ReqIds |-> <<>>]

\* ------------------------------------------------------- frame shorthands
Tunables == <<zfs_vdev_cache_size>>
Disk == <<dev, predev>>
CacheVars == <<ve, vc_offset_tree, vc_lastused_tree>>
WriteVars == <<wr, nwrites>>
History == <<attached, resumed>>

\* ------------------------------------------------------------------ evict
\* an eviction that leaves the node in the offset tree
vdev_cache_evict_lastused_only(c, e) ==
    [ve |-> [c.ve EXCEPT ![e] = NoEntry],
     lt |-> avl_remove(c.lt, e),
     ot |-> c.ot]

\* vdev_cache_evict: the entry leaves both trees and its memory is freed
vdev_cache_evict(c, e) ==
    [ve |-> [c.ve EXCEPT ![e] = NoEntry],
     lt |-> avl_remove(c.lt, e),
     ot |-> avl_remove(c.ot, e)]

TheCache == [ve |-> ve, ot |-> vc_offset_tree, lt |-> vc_lastused_tree]

\* --------------------------------------------------------------- allocate
\* a test that never finds the cache over its size
CacheFull_never(c) == FALSE

\* the test of line 170: (avl_numnodes << zfs_vdev_cache_bshift) > zfs_vdev_cache_size
CacheFull(c) ==
    avl_numnodes(c.lt) * (2 ^ zfs_vdev_cache_bshift) > zfs_vdev_cache_size

\* an eviction step that passes over entries being filled and evicts the
\* oldest entry that is not
AllocateEvict_skip(c) ==
    LET idle == {i \in 1..Len(c.lt) : c.ve[c.lt[i]].ve_fill_io = NULL}
    IN  IF ~CacheFull(c) THEN [ok |-> TRUE, c |-> c]
        ELSE IF idle = {} THEN [ok |-> FALSE, c |-> c]
        ELSE [ok |-> TRUE,
              c |-> vdev_cache_evict(c, c.lt[CHOOSE i \in idle : \A j \in idle : i <= j])]

\* an eviction step that does not look at ve_fill_io
AllocateEvict_filling(c) ==
    IF ~CacheFull(c) THEN [ok |-> TRUE, c |-> c]
    ELSE [ok |-> TRUE, c |-> vdev_cache_evict(c, avl_first(c.lt))]

\* the cache after the eviction step of vdev_cache_allocate (lines 170-179);
\* ok = FALSE where the function returns NULL
AllocateEvict(c) ==
    IF ~CacheFull(c) THEN [ok |-> TRUE, c |-> c]
    ELSE IF c.ve[avl_first(c.lt)].ve_fill_io # NULL THEN [ok |-> FALSE, c |-> c]
    ELSE [ok |-> TRUE, c |-> vdev_cache_evict(c, avl_first(c.lt))]

\* vdev_cache_allocate for zio z; the new entry is named by the id r of the
\* zio that allocates it
vdev_cache_allocate(c, r, z, tick) ==
    IF zfs_vdev_cache_size = 0 THEN [ok |-> FALSE, c |-> c]
    ELSE LET ev == AllocateEvict(c)
             new == [alloc |-> TRUE, ve_offset |-> P2ALIGN(z.io_offset, VCBS),
                     ve_lastused |-> tick, ve_hits |-> 0, ve_data |-> JunkBuf,
                     ve_fill_io |-> NULL, ve_missed_update |-> 0]
             s == [ev.c.ve EXCEPT ![r] = new]
         IN  IF ~ev.ok THEN [ok |-> FALSE, c |-> ev.c]
             ELSE [ok |-> TRUE,
                   c |-> [ve |-> s,
                          ot |-> avl_add("vc_offset_tree", ev.c.ot, s, r),
                          lt |-> avl_add("vc_lastused_tree", ev.c.lt, s, r)]]

\* -------------------------------------------------------------------- hit
\* a copy that starts at the head of the block
HitData_nophase(e, z) == [k \in 0..(z.io_size - 1) |-> e.ve_data[k]]

\* the bytes bcopy moves into the zio: ve_data + cache_phase, io_size of them
HitData(e, z) ==
    [k \in 0..(z.io_size - 1) |-> e.ve_data[P2PHASE(z.io_offset, VCBS) + k]]

\* a hit that counts itself and leaves ve_lastused alone
vdev_cache_hit_nostamp(c, e, tick) ==
    [ve |-> [c.ve EXCEPT ![e].ve_hits = @ + 1], ot |-> c.ot, lt |-> c.lt]

\* vdev_cache_hit on entry e of cache c for zio z: the cache afterwards
vdev_cache_hit(c, e, tick) ==
    LET s == [c.ve EXCEPT ![e].ve_lastused = tick, ![e].ve_hits = @ + 1]
    IN  [ve |-> s,
         ot |-> c.ot,
         lt |-> IF c.ve[e].ve_lastused # tick
                THEN avl_add("vc_lastused_tree", avl_remove(c.lt, e), s, e)
                ELSE c.lt]

\* ------------------------------------------------- the life of a read zio
\* a zio that was declined, or that has both returned from vdev_cache_read and
\* been resumed by zio_execute, is out of the cache's hands
Finished(z) ==
    z.pc = "returned" /\ (z.ret \in Declines \/ z.executed > 0)

InFlight(z) == z.pc # "new" /\ ~Finished(z)

\* no step reads the request fields of a finished zio again: they are dropped
\* from the state (its status, error and the counts of copies and resumptions
\* are kept)
Retire(z) ==
    IF Finished(z)
    THEN [z EXCEPT !.io_offset = 0, !.io_size = 0, !.io_data = <<>>,
                   !.dont_cache = FALSE]
    ELSE z

RetireAll(zs) == [r \in ReqIds |-> Retire(zs[r])]

\* ------------------------------------------------------------- read path
ReadInputs ==
    {in \in [io_offset : 0..(DevSize - 1),
             io_size : 1..(zfs_vdev_cache_max + 1),
             dont_cache : BOOLEAN] :
        /\ in.io_offset + in.io_size <= DevSize
        /\ in.dont_cache <=> (in.io_offset = 0 /\ in.io_size = 1)
        /\ in.io_size > zfs_vdev_cache_max => in.io_offset = 0
        /\ in.io_offset >= VCBS => (in.io_size = 1 /\ P2PHASE(in.io_offset, VCBS) = 0)}

\* lines 269-279: the checks made before the lock is taken
PolicyGate(z) ==
    IF z.dont_cache THEN "EINVAL"
    ELSE IF z.io_size > zfs_vdev_cache_max THEN "EOVERFLOW"
    ELSE IF P2CROSS(z.io_offset, z.io_offset + z.io_size - 1, VCBS) THEN "EXDEV"
    ELSE "OK"

\* a zio as vdev_cache_read receives it
Offered(in) ==
    [NewZio EXCEPT !.io_offset = in.io_offset,
                   !.io_size = in.io_size,
                   !.dont_cache = in.dont_cache,
                   !.io_data = [k \in 0..(in.io_size - 1) |-> Junk]]

\* the next zio may be offered
CanOffer(r) ==
    /\ zio[r].pc = "new"
    /\ \A q \in ReqIds : q < r => zio[q].pc # "new"
    /\ Cardinality({q \in ReqIds : InFlight(zio[q])}) < MaxInFlight

\* lines 269-279: a zio is offered and fails the gate
vdev_cache_read_decline(r, in) ==
    /\ CanOffer(r)
    /\ PolicyGate(Offered(in)) # "OK"
    /\ zio' = RetireAll([zio EXCEPT ![r] = [Offered(in) EXCEPT !.pc = "returned",
                                             !.ret = PolicyGate(Offered(in))]])
    /\ UNCHANGED <<Tunables, lbolt, Disk, vc_lock, CacheVars, fio, WriteVars,
                   vdc_stats, History>>

\* lines 269-283: a zio is offered, passes the gate and takes the lock
vdev_cache_read_enter(r, in) ==
    /\ CanOffer(r)
    /\ PolicyGate(Offered(in)) = "OK"
    /\ vc_lock = NoOne
    /\ vc_lock' = <<"read", r>>
    /\ zio' = [zio EXCEPT ![r] = [Offered(in) EXCEPT !.pc = "locked"]]
    /\ UNCHANGED <<Tunables, lbolt, Disk, CacheVars, fio, WriteVars, vdc_stats,
                   History>>

\* a lookup keyed by io_offset instead of the aligned cache_offset
ReadFind_unaligned(r) == avl_find(vc_offset_tree, ve, zio[r].io_offset)

\* line 286: the lookup in the offset tree
ReadFind(r) == avl_find(vc_offset_tree, ve, P2ALIGN(zio[r].io_offset, VCBS))

\* lines 289-292: the entry missed a write
vdev_cache_read_stale(r) ==
    /\ zio[r].pc = "locked"
    /\ ReadFind(r) # NULL
    /\ ve[ReadFind(r)].ve_missed_update = 1
    /\ vc_lock' = NoOne
    /\ zio' = RetireAll([zio EXCEPT ![r].pc = "returned", ![r].ret = "ESTALE"])
    /\ UNCHANGED <<Tunables, lbolt, Disk, CacheVars, fio, WriteVars, vdc_stats,
                   History>>

\* the last zio of the list that starts at d
RECURSIVE ListTail(_, _)
ListTail(zs, d) ==
    IF zs[d].io_delegate_next = NULL THEN d ELSE ListTail(zs, zs[d].io_delegate_next)

\* a delegation that links the zio at the tail of the fill's list
vdev_cache_read_delegate_tail(r) ==
    /\ zio[r].pc = "locked"
    /\ ReadFind(r) # NULL
    /\ ve[ReadFind(r)].ve_missed_update = 0
    /\ ve[ReadFind(r)].ve_fill_io # NULL
    /\ LET f == ve[ReadFind(r)].ve_fill_io
       IN  /\ zio' = [zio EXCEPT ![ListTail(zio, fio[f].io_delegate_list)].io_delegate_next = r,
                                 ![r].bypass = TRUE,
                                 ![r].pc = "delegated"]
           /\ attached' = [attached EXCEPT ![f] = Append(@, r)]
    /\ vc_lock' = NoOne
    /\ UNCHANGED <<Tunables, lbolt, Disk, CacheVars, fio, WriteVars, vdc_stats, resumed>>

\* a delegation that tests ve_fill_io without testing ve_missed_update
vdev_cache_read_delegate_marked(r) ==
    /\ zio[r].pc = "locked"
    /\ ReadFind(r) # NULL
    /\ ve[ReadFind(r)].ve_fill_io # NULL
    /\ LET f == ve[ReadFind(r)].ve_fill_io
       IN  /\ zio' = RetireAll([zio EXCEPT ![r].io_delegate_next = fio[f].io_delegate_list,
                                 ![r].bypass = TRUE,
                                 ![r].pc = "delegated"])
           /\ fio' = [fio EXCEPT ![f].io_delegate_list = r]
           /\ attached' = [attached EXCEPT ![f] = Append(@, r)]
    /\ vc_lock' = NoOne
    /\ UNCHANGED <<Tunables, lbolt, Disk, CacheVars, WriteVars, vdc_stats, resumed>>

\* lines 294-298: the entry is being filled; the zio goes on the fill's list
vdev_cache_read_delegate(r) ==
    /\ zio[r].pc = "locked"
    /\ ReadFind(r) # NULL
    /\ ve[ReadFind(r)].ve_missed_update = 0
    /\ ve[ReadFind(r)].ve_fill_io # NULL
    /\ LET f == ve[ReadFind(r)].ve_fill_io
       IN  /\ zio' = RetireAll([zio EXCEPT ![r].io_delegate_next = fio[f].io_delegate_list,
                                 ![r].bypass = TRUE,
                                 ![r].pc = "delegated"])
           /\ fio' = [fio EXCEPT ![f].io_delegate_list = r]
           /\ attached' = [attached EXCEPT ![f] = Append(@, r)]
    /\ vc_lock' = NoOne
    /\ UNCHANGED <<Tunables, lbolt, Disk, CacheVars, WriteVars, vdc_stats, resumed>>

\* a hit taken without testing ve_fill_io
vdev_cache_read_hit_filling(r) ==
    /\ zio[r].pc = "locked"
    /\ ReadFind(r) # NULL
    /\ ve[ReadFind(r)].ve_missed_update = 0
    /\ LET e == ReadFind(r)
           c == vdev_cache_hit(TheCache, e, lbolt)
       IN  /\ ve' = c.ve
           /\ vc_offset_tree' = c.ot
           /\ vc_lastused_tree' = c.lt
           /\ zio' = RetireAll([zio EXCEPT ![r].io_data = HitData(ve[e], zio[r]),
                                 ![r].copies = @ + 1,
                                 ![r].bypass = TRUE,
                                 ![r].pc = "hit"])
    /\ vc_lock' = NoOne
    /\ UNCHANGED <<Tunables, lbolt, Disk, fio, WriteVars, vdc_stats, History>>

\* a hit that resumes the zio before the lock is released
vdev_cache_read_hit_execute_locked(r) ==
    /\ zio[r].pc = "locked"
    /\ ReadFind(r) # NULL
    /\ ve[ReadFind(r)].ve_missed_update = 0
    /\ ve[ReadFind(r)].ve_fill_io = NULL
    /\ LET e == ReadFind(r)
           c == vdev_cache_hit(TheCache, e, lbolt)
       IN  /\ ve' = c.ve
           /\ vc_offset_tree' = c.ot
           /\ vc_lastused_tree' = c.lt
           /\ zio' = RetireAll([zio EXCEPT ![r] =
                        [zio[r] EXCEPT !.io_data = HitData(ve[e], zio[r]),
                                       !.copies = @ + 1,
                                       !.executed = @ + 1,
                                       !.bypass = TRUE,
                                       !.pc = "returned",
                                       !.ret = "OK"]])
    /\ vc_lock' = NoOne
    /\ vdc_stats' = [vdc_stats EXCEPT !.hits = @ + 1]
    /\ UNCHANGED <<Tunables, lbolt, Disk, fio, WriteVars, History>>

\* lines 303-306: a hit
vdev_cache_read_hit(r) ==
    /\ zio[r].pc = "locked"
    /\ ReadFind(r) # NULL
    /\ ve[ReadFind(r)].ve_missed_update = 0
    /\ ve[ReadFind(r)].ve_fill_io = NULL
    /\ LET e == ReadFind(r)
           c == vdev_cache_hit(TheCache, e, lbolt)
       IN  /\ ve' = c.ve
           /\ vc_offset_tree' = c.ot
           /\ vc_lastused_tree' = c.lt
           /\ zio' = RetireAll([zio EXCEPT ![r].io_data = HitData(ve[e], zio[r]),
                                 ![r].copies = @ + 1,
                                 ![r].bypass = TRUE,
                                 ![r].pc = "hit"])
    /\ vc_lock' = NoOne
    /\ UNCHANGED <<Tunables, lbolt, Disk, fio, WriteVars, vdc_stats, History>>

\* a failed allocation that has counted the miss already
vdev_cache_read_nomem_bump(r) ==
    /\ zio[r].pc = "locked"
    /\ ReadFind(r) = NULL
    /\ ~vdev_cache_allocate(TheCache, r, zio[r], lbolt).ok
    /\ vc_lock' = NoOne
    /\ zio' = RetireAll([zio EXCEPT ![r].pc = "returned", ![r].ret = "ENOMEM"])
    /\ vdc_stats' = [vdc_stats EXCEPT !.misses = @ + 1]
    /\ UNCHANGED <<Tunables, lbolt, Disk, CacheVars, fio, WriteVars, History>>

\* lines 312-317: no entry and vdev_cache_allocate returns NULL
vdev_cache_read_nomem(r) ==
    /\ zio[r].pc = "locked"
    /\ ReadFind(r) = NULL
    /\ LET a == vdev_cache_allocate(TheCache, r, zio[r], lbolt)
       IN  /\ ~a.ok
           /\ ve' = a.c.ve
           /\ vc_offset_tree' = a.c.ot
           /\ vc_lastused_tree' = a.c.lt
    /\ vc_lock' = NoOne
    /\ zio' = RetireAll([zio EXCEPT ![r].pc = "returned", ![r].ret = "ENOMEM"])
    /\ UNCHANGED <<Tunables, lbolt, Disk, fio, WriteVars, vdc_stats, History>>

\* lines 312-329: a miss; the entry is allocated and the child read created
vdev_cache_read_miss(r) ==
    /\ zio[r].pc = "locked"
    /\ ReadFind(r) = NULL
    /\ LET a == vdev_cache_allocate(TheCache, r, zio[r], lbolt)
       IN  /\ a.ok
           /\ ve' = [a.c.ve EXCEPT ![r].ve_fill_io = r]
           /\ vc_offset_tree' = a.c.ot
           /\ vc_lastused_tree' = a.c.lt
    /\ fio' = [fio EXCEPT ![r] = [state |-> "created",
                                  io_offset |-> P2ALIGN(zio[r].io_offset, VCBS),
                                  io_error |-> 0,
                                  io_data |-> JunkBuf,
                                  io_delegate_list |-> r,
                                  io_private |-> r]]
    /\ zio' = RetireAll([zio EXCEPT ![r].bypass = TRUE, ![r].pc = "miss"])
    /\ attached' = [attached EXCEPT ![r] = <<r>>]
    /\ vc_lock' = NoOne
    /\ UNCHANGED <<Tunables, lbolt, Disk, WriteVars, vdc_stats, resumed>>

\* zio_execute: the zio is resumed
zio_execute(z) == [z EXCEPT !.executed = @ + 1]

\* lines 307-309: after the lock is released, a hit is resumed inline
vdev_cache_read_hit_done(r) ==
    /\ zio[r].pc = "hit"
    /\ zio' = RetireAll([zio EXCEPT ![r] = [zio_execute(@) EXCEPT !.pc = "returned", !.ret = "OK"]])
    /\ vdc_stats' = [vdc_stats EXCEPT !.hits = @ + 1]
    /\ UNCHANGED <<Tunables, lbolt, Disk, vc_lock, CacheVars, fio, WriteVars, History>>

\* a delegation that returns without counting itself
vdev_cache_read_delegate_done_nobump(r) ==
    /\ zio[r].pc = "delegated"
    /\ zio' = RetireAll([zio EXCEPT ![r].pc = "returned", ![r].ret = "OK"])
    /\ UNCHANGED <<Tunables, lbolt, Disk, vc_lock, CacheVars, fio, WriteVars, vdc_stats,
                   History>>

\* lines 299-300
vdev_cache_read_delegate_done(r) ==
    /\ zio[r].pc = "delegated"
    /\ zio' = RetireAll([zio EXCEPT ![r].pc = "returned", ![r].ret = "OK"])
    /\ vdc_stats' = [vdc_stats EXCEPT !.delegations = @ + 1]
    /\ UNCHANGED <<Tunables, lbolt, Disk, vc_lock, CacheVars, fio, WriteVars, History>>

\* lines 330-333: zio_nowait starts the child read
vdev_cache_read_miss_done(r) ==
    /\ zio[r].pc = "miss"
    /\ zio' = RetireAll([zio EXCEPT ![r].pc = "returned", ![r].ret = "OK"])
    /\ fio' = [fio EXCEPT ![r].state = "issued"]
    /\ vdc_stats' = [vdc_stats EXCEPT !.misses = @ + 1]
    /\ UNCHANGED <<Tunables, lbolt, Disk, vc_lock, CacheVars, WriteVars, History>>

\* ---------------------------------------------------------- the child read
\* the block of the device at an aligned offset
DevBlock(d, offset) == [k \in 0..(VCBS - 1) |-> d[offset + k]]

\* the device serves the child read into its buffer, which is the entry's
\* ve_data (line 320), or fails it with an error
vdev_child_io(c, err) ==
    /\ fio[c].state = "issued"
    /\ fio' = [fio EXCEPT ![c].state = "iodone",
                          ![c].io_error = err,
                          ![c].io_data = IF err = 0 THEN DevBlock(dev, fio[c].io_offset)
                                         ELSE @]
    /\ ve' = IF err = 0
             THEN [ve EXCEPT ![fio[c].io_private].ve_data = DevBlock(dev, fio[c].io_offset)]
             ELSE ve
    /\ UNCHANGED <<Tunables, lbolt, Disk, vc_lock, vc_offset_tree, vc_lastused_tree,
                   zio, WriteVars, vdc_stats, History>>

\* ------------------------------------------------------------------- fill
\* lines 239-240: vdev_cache_hit for every zio on the delegate list, in list
\* order; st = [c |-> the cache, zio |-> the zios]
RECURSIVE FillHits(_, _, _, _)
FillHits(st, e, dio, tick) ==
    IF dio = NULL THEN st
    ELSE FillHits([c |-> vdev_cache_hit(st.c, e, tick),
                   zio |-> [st.zio EXCEPT
                              ![dio].io_data = HitData(st.c.ve[e], st.zio[dio]),
                              ![dio].copies = @ + 1]],
                  e, st.zio[dio].io_delegate_next, tick)

\* a completion that leaves ve_fill_io set
FillClear_keep(c, e) == c

\* line 232: ve->ve_fill_io = NULL
FillClear(c, e) == [c EXCEPT !.ve[e].ve_fill_io = NULL]

\* lines 226-240: the lock is taken, ve_fill_io cleared, the delegates served
vdev_cache_fill_enter(c) ==
    /\ fio[c].state = "iodone"
    /\ vc_lock = NoOne
    /\ vc_lock' = <<"fill", c>>
    /\ LET e == fio[c].io_private
           st == FillHits([c |-> FillClear(TheCache, e), zio |-> zio],
                          e, fio[c].io_delegate_list, lbolt)
       IN  /\ ve' = st.c.ve
           /\ vc_offset_tree' = st.c.ot
           /\ vc_lastused_tree' = st.c.lt
           /\ zio' = st.zio
    /\ fio' = [fio EXCEPT ![c].state = "filling"]
    /\ UNCHANGED <<Tunables, lbolt, Disk, WriteVars, vdc_stats, History>>

\* an eviction that forgets the error
FillEvicts_noerror(c) == ve[fio[c].io_private].ve_missed_update = 1

\* an eviction that forgets the missed update
FillEvicts_nostale(c) == fio[c].io_error # 0

\* line 242: the entry does not outlive an error or a missed update
FillEvicts(c) ==
    fio[c].io_error # 0 \/ ve[fio[c].io_private].ve_missed_update = 1

\* lines 242-245: evict on error or missed update, release the lock
vdev_cache_fill_exit(c) ==
    /\ fio[c].state = "filling"
    /\ LET n == IF FillEvicts(c)
                THEN vdev_cache_evict(TheCache, fio[c].io_private)
                ELSE TheCache
       IN  /\ ve' = n.ve
           /\ vc_offset_tree' = n.ot
           /\ vc_lastused_tree' = n.lt
    /\ vc_lock' = NoOne
    /\ fio' = [fio EXCEPT ![c].state = "resuming"]
    /\ UNCHANGED <<Tunables, lbolt, Disk, zio, WriteVars, vdc_stats, History>>

\* a loop that resumes the head of the list and drops the rest
vdev_cache_fill_resume_once(c) ==
    /\ fio[c].state = "resuming"
    /\ LET dio == fio[c].io_delegate_list
       IN  /\ dio # NULL
           /\ fio' = [fio EXCEPT ![c] = [NoChild EXCEPT !.state = "done",
                                                        !.io_error = fio[c].io_error]]
           /\ zio' = RetireAll([zio EXCEPT ![dio] =
                        zio_execute([@ EXCEPT !.io_delegate_next = NULL,
                                              !.io_error = fio[c].io_error])])
           /\ resumed' = [resumed EXCEPT ![c] = Append(@, dio)]
    /\ UNCHANGED <<Tunables, lbolt, Disk, vc_lock, CacheVars, WriteVars, vdc_stats,
                   attached>>

\* lines 247-252: one turn of the loop that resumes the delegates
vdev_cache_fill_resume(c) ==
    /\ fio[c].state = "resuming"
    /\ LET dio == fio[c].io_delegate_list
       IN  /\ dio # NULL
           /\ fio' = [fio EXCEPT ![c].io_delegate_list = zio[dio].io_delegate_next,
                                 ![c].state = IF zio[dio].io_delegate_next = NULL
                                              THEN "done" ELSE "resuming",
                                 ![c].io_offset = IF zio[dio].io_delegate_next = NULL
                                                  THEN 0 ELSE @,
                                 ![c].io_private = IF zio[dio].io_delegate_next = NULL
                                                   THEN NULL ELSE @,
                                 ![c].io_data = IF zio[dio].io_delegate_next = NULL
                                                THEN JunkBuf ELSE @]
           /\ zio' = RetireAll([zio EXCEPT ![dio] =
                        zio_execute([@ EXCEPT !.io_delegate_next = NULL,
                                              !.io_error = fio[c].io_error])])
           /\ resumed' = [resumed EXCEPT ![c] = Append(@, dio)]
    /\ UNCHANGED <<Tunables, lbolt, Disk, vc_lock, CacheVars, WriteVars, vdc_stats,
                   attached>>

\* ------------------------------------------------------------- write path
WriteInputs ==
    {in \in [io_offset : {0, VCBS + 1}, io_size : {1, VCBS + 1}] :
        /\ in.io_offset + in.io_size <= DevSize
        /\ in.io_size = 1 <=> in.io_offset = 0}

\* the bytes the n-th write carries
WriteData(n, size) == [k \in 0..(size - 1) |-> 10 * n + k]

\* the write completes on the device; vdev_cache_write is still to be called
vdev_io_write(in) ==
    /\ wr.pc = "idle"
    /\ nwrites < MaxWrites
    /\ nwrites' = nwrites + 1
    /\ wr' = [pc |-> "devdone", io_offset |-> in.io_offset, io_size |-> in.io_size,
              io_data |-> WriteData(nwrites + 1, in.io_size)]
    /\ dev' = [i \in 0..(DevSize - 1) |->
                 IF in.io_offset <= i /\ i < in.io_offset + in.io_size
                 THEN WriteData(nwrites + 1, in.io_size)[i - in.io_offset]
                 ELSE dev[i]]
    /\ predev' = dev
    /\ UNCHANGED <<Tunables, lbolt, vc_lock, CacheVars, zio, fio, vdc_stats, History>>

\* line 352: mutex_enter
vdev_cache_write_enter ==
    /\ wr.pc = "devdone"
    /\ vc_lock = NoOne
    /\ vc_lock' = <<"write", 0>>
    /\ wr' = [wr EXCEPT !.pc = "locked"]
    /\ UNCHANGED <<Tunables, lbolt, Disk, CacheVars, zio, fio, nwrites, vdc_stats,
                   History>>

\* a write that copies into the entry whether or not it is being filled
WriteEntry_copy(e, w) ==
    LET start == MAX(e.ve_offset, w.io_offset)
        end == MIN(e.ve_offset + VCBS, w.io_offset + w.io_size)
    IN  [e EXCEPT !.ve_data =
           [k \in 0..(VCBS - 1) |->
              IF start - e.ve_offset <= k /\ k < end - e.ve_offset
              THEN w.io_data[k + e.ve_offset - w.io_offset]
              ELSE e.ve_data[k]]]

\* lines 361-369: what the write does to one entry
WriteEntry(e, w) ==
    LET start == MAX(e.ve_offset, w.io_offset)
        end == MIN(e.ve_offset + VCBS, w.io_offset + w.io_size)
    IN  IF e.ve_fill_io # NULL
        THEN [e EXCEPT !.ve_missed_update = 1]
        ELSE [e EXCEPT !.ve_data =
                [k \in 0..(VCBS - 1) |->
                   IF start - e.ve_offset <= k /\ k < end - e.ve_offset
                   THEN w.io_data[k + e.ve_offset - w.io_offset]
                   ELSE e.ve_data[k]]]

\* lines 360-371: the walk along the offset tree from position i
RECURSIVE WriteWalk(_, _, _, _)
WriteWalk(s, tree, i, w) ==
    IF i > Len(tree) \/ ~(s[tree[i]].ve_offset < P2ROUNDUP(w.io_offset + w.io_size, VCBS))
    THEN s
    ELSE WriteWalk([s EXCEPT ![tree[i]] = WriteEntry(s[tree[i]], w)], tree, i + 1, w)

\* a walk that starts at the head of the offset tree
WriteFirst_head(s, tree, w) == 1

\* lines 354-358: avl_find, or else avl_nearest(AVL_AFTER): the position of the
\* first entry at or after min_offset
WriteFirst(s, tree, w) ==
    1 + Cardinality({i \in 1..Len(tree) :
                       s[tree[i]].ve_offset < P2ALIGN(w.io_offset, VCBS)})

\* lines 354-372
vdev_cache_write_locked ==
    /\ wr.pc = "locked"
    /\ ve' = WriteWalk(ve, vc_offset_tree, WriteFirst(ve, vc_offset_tree, wr), wr)
    /\ vc_lock' = NoOne
    /\ wr' = IdleWrite
    /\ UNCHANGED <<Tunables, lbolt, Disk, vc_offset_tree, vc_lastused_tree, zio, fio,
                   nwrites, vdc_stats, History>>

\* ------------------------------------------------------------------ purge
RECURSIVE PurgeAll(_)
PurgeAll(c) ==
    IF avl_first(c.ot) = NULL THEN c
    ELSE PurgeAll(vdev_cache_evict(c, avl_first(c.ot)))

\* lines 376-385; the caller has quiesced the device: no fill is outstanding
vdev_cache_purge ==
    /\ vc_lock = NoOne
    /\ \A i \in 1..Len(vc_offset_tree) : ve[vc_offset_tree[i]].ve_fill_io = NULL
    /\ LET n == PurgeAll(TheCache)
       IN  /\ ve' = n.ve
           /\ vc_offset_tree' = n.ot
           /\ vc_lastused_tree' = n.lt
    /\ UNCHANGED <<Tunables, lbolt, Disk, vc_lock, zio, fio, WriteVars, vdc_stats,
                   History>>

\* the clock advances
Tick ==
    /\ lbolt < MaxTick
    /\ lbolt' = lbolt + 1
    /\ UNCHANGED <<Tunables, Disk, vc_lock, CacheVars, zio, fio, WriteVars,
                   vdc_stats, History>>

\* every step of a thread of the program
Program ==
    \/ \E r \in ReqIds, in \in ReadInputs : vdev_cache_read_decline(r, in)
    \/ \E r \in ReqIds, in \in ReadInputs : vdev_cache_read_enter(r, in)
    \/ \E r \in ReqIds : vdev_cache_read_stale(r)
    \/ \E r \in ReqIds : vdev_cache_read_delegate(r)
    \/ \E r \in ReqIds : vdev_cache_read_hit(r)
    \/ \E r \in ReqIds : vdev_cache_read_nomem(r)
    \/ \E r \in ReqIds : vdev_cache_read_miss(r)
    \/ \E r \in ReqIds : vdev_cache_read_hit_done(r)
    \/ \E r \in ReqIds : vdev_cache_read_delegate_done(r)
    \/ \E r \in ReqIds : vdev_cache_read_miss_done(r)
    \/ \E c \in ReqIds, err \in {0, EIO} : vdev_child_io(c, err)
    \/ \E c \in ReqIds : vdev_cache_fill_enter(c)
    \/ \E c \in ReqIds : vdev_cache_fill_exit(c)
    \/ \E c \in ReqIds : vdev_cache_fill_resume(c)
    \/ \E in \in WriteInputs : vdev_io_write(in)
    \/ vdev_cache_write_enter
    \/ vdev_cache_write_locked
    \/ vdev_cache_purge

Next == Tick \/ Program

Spec == Init /\ [][Next]_vars

\* ------------------------------------------------------------- scheduling
\* the steps of vdev_cache_read for a zio that holds or has held the lock
ReadSteps(r) ==
    \/ vdev_cache_read_stale(r)
    \/ vdev_cache_read_delegate(r)
    \/ vdev_cache_read_hit(r)
    \/ vdev_cache_read_nomem(r)
    \/ vdev_cache_read_miss(r)
    \/ vdev_cache_read_hit_done(r)
    \/ vdev_cache_read_delegate_done(r)
    \/ vdev_cache_read_miss_done(r)

\* the child read is served and its completion, vdev_cache_fill, runs
ChildSteps(c) ==
    \/ \E err \in {0, EIO} : vdev_child_io(c, err)
    \/ vdev_cache_fill_enter(c)
    \/ vdev_cache_fill_exit(c)
    \/ vdev_cache_fill_resume(c)

WriteSteps == vdev_cache_write_enter \/ vdev_cache_write_locked

\* whenever some thread inside the cache, or some submitted child read, can
\* take a step, one of them does: the lock is a mutex that is always released
\* (lines 290, 298, 306, 315, 329, 245, 372) and the device completes every child
\* read.  New requests, device writes and purges are under no obligation.
Fairness ==
    WF_vars(WriteSteps \/ \E r \in ReqIds : ReadSteps(r) \/ ChildSteps(r))

\* the program with the clock standing still: lbolt only orders the LRU tree
LiveSpec == Init /\ [][Program]_vars /\ Fairness
\* ================================================================ claims
Range(s) == {s[i] : i \in 1..Len(s)}

Reverse(s) == [i \in 1..Len(s) |-> s[Len(s) + 1 - i]]

IsPrefix(s, u) == Len(s) <= Len(u) /\ SubSeq(u, 1, Len(s)) = s

\* the child read has been created and its completion has not finished the
\* critical section of vdev_cache_fill
FillOutstanding(c) == fio[c].state \in {"created", "issued", "iodone", "filling"}

NoFillOutstanding == \A c \in ReqIds : ~FillOutstanding(c)

Returned == {r \in ReqIds : zio[r].pc = "returned"}

\* C1: in every reachable state there is at most one outstanding fill (child
\* read) for every aligned block offset, and it is the fill the block's entry
\* names: of several reads of one block only one has submitted a child read.
C1_OneFillPerBlock ==
    /\ \A c1, c2 \in ReqIds :
          (FillOutstanding(c1) /\ FillOutstanding(c2)
             /\ fio[c1].io_offset = fio[c2].io_offset) => c1 = c2
    /\ \A c \in ReqIds :
          fio[c].state \in {"created", "issued", "iodone"} =>
              /\ ve[c].alloc /\ ve[c].ve_fill_io = c
              /\ ve[c].ve_offset = fio[c].io_offset
              /\ c \in Range(vc_offset_tree)

\* two reads of one block were offered while the cache was empty; one has
\* submitted the fill and the other is delegated to it
C1_Witness ==
    \E c, r \in ReqIds :
        /\ c # r
        /\ fio[c].state = "issued"
        /\ zio[r].pc = "delegated"
        /\ r \in Range(attached[c])
        /\ Len(vc_offset_tree) = 1

\* C3: whenever no fill is outstanding and no operation is inside the lock,
\* entry_count * B <= size_limit.
C3_SizeLimit ==
    (NoFillOutstanding /\ vc_lock = NoOne) =>
        Len(vc_offset_tree) * VCBS <= zfs_vdev_cache_size

\* C9: the three counters and the declined reads add up to the reads that have
\* returned, so to all the reads offered once every call has returned.
C9_CountersAddUp ==
    vdc_stats.hits + vdc_stats.misses + vdc_stats.delegations
        + Cardinality({r \in Returned : zio[r].ret \in Declines})
    = Cardinality(Returned)

\* every read has returned; one was declined, one missed and one was delegated
C9_Witness ==
    /\ Returned = ReqIds
    /\ vdc_stats.misses = 1
    /\ vdc_stats.delegations = 1
    /\ \E r \in ReqIds : zio[r].ret \in Declines

\* C10 as stated: within one fill the zios are resumed in the order attached.
C10_AttachOrder ==
    \A c \in ReqIds : IsPrefix(resumed[c], attached[c])

\* C10 amended: within one fill the zios are resumed in the reverse of the
\* order in which they were attached: the last delegated first, the zio that
\* missed last.
C10_ReverseAttachOrder ==
    \A c \in ReqIds : IsPrefix(resumed[c], Reverse(attached[c]))

\* a fill with the missing zio and a delegate has resumed both
C10_Witness ==
    \E c \in ReqIds :
        /\ fio[c].state = "done"
        /\ Len(attached[c]) >= 2
        /\ Len(resumed[c]) = Len(attached[c])
\* the bytes of the device in the range of zio z
DevRange(d, z) == [k \in 0..(z.io_size - 1) |-> d[z.io_offset + k]]

\* the step is the lookup of vdev_cache_read by zio r
ReadLooksUp(r) == zio[r].pc = "locked" /\ zio'[r].pc # "locked"

\* the step is the critical section of vdev_cache_fill for child c up to the
\* hits (lines 226-240), or its end (lines 242-245)
FillServes(c) == fio[c].state = "iodone" /\ fio'[c].state = "filling"
FillLeaves(c) == fio[c].state = "filling" /\ fio'[c].state = "resuming"

\* C2, the entries: outside the critical section of a fill completion and with
\* vdev_cache_write applied for every completed device write, an entry with no
\* fill in flight holds the device contents of its block.
C2_EntryMatchesDevice ==
    (vc_lock[1] # "fill" /\ wr.pc = "idle") =>
        \A e \in Range(vc_offset_tree) :
            ve[e].ve_fill_io = NULL => ve[e].ve_data = DevBlock(dev, ve[e].ve_offset)

\* C2, the bytes delivered: with vdev_cache_write applied for every completed
\* device write, a hit copies the device contents of the read's range, and so
\* does a fill completion without error whose entry missed no update.
C2_Delivered ==
    wr.pc = "idle" =>
        /\ \A r \in ReqIds :
              (ReadLooksUp(r) /\ zio'[r].pc = "hit") =>
                  zio'[r].io_data = DevRange(dev, zio[r])
        /\ \A c \in ReqIds :
              (FillServes(c) /\ fio[c].io_error = 0 /\ ve[c].ve_missed_update = 0) =>
                  \A r \in Range(attached[c]) :
                      zio'[r].io_data = DevRange(dev, zio[r])

C5_Attach ==
    \A c \in ReqIds :
        attached'[c] # attached[c] =>
            /\ fio'[c].state \in {"created", "issued", "iodone"}
            /\ ve'[c].ve_fill_io = c
            /\ Len(attached'[c]) = Len(attached[c]) + 1
            /\ SubSeq(attached'[c], 1, Len(attached[c])) = attached[c]

\* C5, draining: the zios copied to under the lock are the zios attached, each
\* once; the zios resumed are zios attached, each once, and all of them when
\* the fill is done.
C5_Drained ==
    /\ \A r \in ReqIds : zio[r].copies <= 1 /\ zio[r].executed <= 1
    /\ \A c \in ReqIds :
          /\ Cardinality(Range(attached[c])) = Len(attached[c])
          /\ Cardinality(Range(resumed[c])) = Len(resumed[c])
          /\ Range(resumed[c]) \subseteq Range(attached[c])
          /\ \A r \in Range(attached[c]) :
                /\ zio[r].copies = IF fio[c].state \in {"filling", "resuming", "done"}
                                   THEN 1 ELSE 0
                /\ zio[r].executed = IF r \in Range(resumed[c]) THEN 1 ELSE 0
          /\ fio[c].state \in {"created", "issued", "iodone", "filling"} =>
                resumed[c] = <<>>
          /\ fio[c].state = "done" => Range(resumed[c]) = Range(attached[c])

\* C5: delegates accumulate only while the fill is in flight and are drained
\* exactly once.
C5_DrainedOnce == [](C5_Drained) /\ [][C5_Attach]_vars

\* a fill with the missing zio and a delegate has copied to and resumed both
C5_Witness ==
    \E c \in ReqIds :
        /\ fio[c].state = "done"
        /\ Len(attached[c]) >= 2
        /\ \A r \in Range(attached[c]) : zio[r].copies = 1 /\ zio[r].executed = 1

\* C6: every zio resumed by a fill carries the child's error, and the entry of
\* a child that ended with an error is gone from the cache when the fill
\* completion releases the lock, so no read finds it afterwards.
C6_ErrorPropagated ==
    \A c \in ReqIds :
        fio[c].state \in {"resuming", "done"} =>
            /\ \A r \in Range(resumed[c]) : zio[r].io_error = fio[c].io_error
            /\ fio[c].io_error # 0 =>
                  /\ ~ve[c].alloc
                  /\ c \notin Range(vc_offset_tree)
                  /\ c \notin Range(vc_lastused_tree)

\* a child with a delegate ended with an error; both zios were resumed with it
C6_Witness ==
    \E c \in ReqIds :
        /\ fio[c].state = "done"
        /\ fio[c].io_error # 0
        /\ Len(resumed[c]) >= 2
        /\ \A r \in Range(resumed[c]) : zio[r].io_error = fio[c].io_error

\* the part of the state a declined read must leave alone
CacheState == <<ve, vc_offset_tree, vc_lastused_tree, fio, vdc_stats, attached, resumed>>

\* C7: a vdev_cache_read that returns an errno changes nothing of the cache:
\* no entry, no tree, no child read, no delegate list, no counter, and the zio
\* is not marked bypass.
C7_Declined ==
    \A r \in ReqIds :
        /\ (zio[r].pc = "new" /\ zio'[r].pc = "locked") => UNCHANGED CacheState
        /\ (zio[r].ret = "none" /\ zio'[r].ret \in Declines) =>
              /\ UNCHANGED CacheState
              /\ ~zio'[r].bypass
              /\ zio'[r].io_delegate_next = NULL
              /\ zio'[r].copies = 0 /\ zio'[r].executed = 0
              /\ \A q \in ReqIds \ {r} : zio'[q] = zio[q]

C7_DeclineLeavesCacheUnchanged == [][C7_Declined]_vars

\* a read was declined with ENOMEM while the cache held two entries
C7_Witness ==
    /\ \E r \in ReqIds : zio[r].ret = "ENOMEM"
    /\ Len(vc_offset_tree) >= 2
\* the write w and the block of entry e have bytes in common
Overlaps(e, w) ==
    MAX(e.ve_offset, w.io_offset) < MIN(e.ve_offset + VCBS, w.io_offset + w.io_size)

\* the step is the walk of vdev_cache_write
WriteWalks == wr.pc = "locked" /\ wr'.pc = "idle"

\* the bytes of block b that fall in the range of zio z
BlockRange(b, z) ==
    [k \in 0..(z.io_size - 1) |-> b[z.io_offset - P2ALIGN(z.io_offset, VCBS) + k]]

\* C8, the mark: a write that overlaps an entry being filled marks it and
\* leaves its data alone.
C8_Mark ==
    WriteWalks =>
        \A e \in Range(vc_offset_tree) :
            (ve[e].ve_fill_io # NULL /\ Overlaps(ve[e], wr)) =>
                /\ ve'[e].ve_missed_update = 1
                /\ ve'[e].ve_data = ve[e].ve_data
                /\ ve'[e].ve_fill_io = ve[e].ve_fill_io

\* C8, the zios attached: at the completion of a fill whose entry was marked,
\* every zio on the list receives the bytes the device returned to the child.
C8_Served ==
    \A c \in ReqIds :
        (FillServes(c) /\ ve[c].ve_missed_update = 1 /\ fio[c].io_error = 0) =>
            \A r \in Range(attached[c]) :
                zio'[r].io_data = BlockRange(fio[c].io_data, zio[r])

\* C8, after the mark: a read that finds the marked entry returns ESTALE and is
\* attached to nothing.
C8_Stale ==
    /\ \A r \in ReqIds :
          (ReadLooksUp(r) /\ ReadFind(r) # NULL
             /\ ve[ReadFind(r)].ve_missed_update = 1) =>
                 /\ zio'[r].ret = "ESTALE"
                 /\ attached' = attached
    /\ \A c \in ReqIds :
          (attached'[c] # attached[c]) => ve'[c].ve_missed_update = 0

\* C8, the eviction: the marked entry is gone when its fill completion releases
\* the lock, and no entry is left for its block, so the next read of the block
\* finds none and takes the miss path.
C8_Evicted ==
    \A c \in ReqIds :
        (FillLeaves(c) /\ ve[c].ve_missed_update = 1) =>
            /\ ~ve'[c].alloc
            /\ avl_find(vc_offset_tree', ve', fio[c].io_offset) = NULL
            /\ c \notin Range(vc_lastused_tree')

\* C8 amended: the zios attached receive the bytes the device returned to the
\* child read, whether it served the read before or after the write.
C8_MissedUpdate == [][C8_Mark /\ C8_Served /\ C8_Stale /\ C8_Evicted]_vars

\* C8 as stated: the zios attached to a fill whose entry was marked receive the
\* contents the device had before the write.
C8_PreWriteData ==
    [][\A c \in ReqIds :
          (FillServes(c) /\ ve[c].ve_missed_update = 1 /\ fio[c].io_error = 0) =>
              \A r \in Range(attached[c]) :
                  zio'[r].io_data = DevRange(predev, zio[r])]_vars

\* a fill whose entry missed a write has completed without error: its entry is
\* evicted, and a read that came after the mark was declined with ESTALE
C8_Witness ==
    \E c, r \in ReqIds :
        /\ fio[c].state = "resuming"
        /\ fio[c].io_error = 0
        /\ ~ve[c].alloc
        /\ zio[c].copies = 1
        /\ zio[r].ret = "ESTALE"
\* vdev_cache_read has decided to return 0 for the zio
Accepted(r) ==
    \/ zio[r].pc \in {"hit", "delegated", "miss"}
    \/ zio[r].pc = "returned" /\ zio[r].ret = "OK"

\* C4: every read accepted by vdev_cache_read is eventually resumed, given
\* that threads keep running and every child read completes.
C4_EventuallyResumed ==
    \A r \in ReqIds : Accepted(r) ~> (zio[r].executed = 1)

\* a delegated read has returned from vdev_cache_read and was resumed by the
\* completion of the fill it was attached to
C4_Witness ==
    \E c, r \in ReqIds :
        /\ c # r
        /\ r \in Range(resumed[c])
        /\ zio[r].ret = "OK"
        /\ zio[r].executed = 1

\* the entries that are allocated
Allocated == {e \in ReqIds : ve[e].alloc}

\* C11: whenever no operation holds vc_lock, the offset tree and the last-used
\* tree hold the same entries, the allocated ones, each once, and no two
\* entries have the same offset.
C11_TreesAgree ==
    vc_lock = NoOne =>
        /\ Range(vc_offset_tree) = Range(vc_lastused_tree)
        /\ Range(vc_offset_tree) = Allocated
        /\ Cardinality(Range(vc_offset_tree)) = Len(vc_offset_tree)
        /\ Cardinality(Range(vc_lastused_tree)) = Len(vc_lastused_tree)
        /\ \A e1, e2 \in Range(vc_offset_tree) :
              ve[e1].ve_offset = ve[e2].ve_offset => e1 = e2

\* after an eviction and a fill completion that re-stamped its entry, the two
\* trees hold the same two entries in different orders
C11_Witness ==
    /\ vc_lock = NoOne
    /\ Len(vc_offset_tree) = 2
    /\ vc_offset_tree # vc_lastused_tree
    /\ \E e \in ReqIds : fio[e].state = "done" /\ ~ve[e].alloc
    /\ \E e \in Allocated : ve[e].ve_hits >= 1 /\ ve[e].ve_lastused = MaxTick

\* entry e1 is older than entry e2: smaller (ve_lastused, ve_offset)
Older(e1, e2) ==
    \/ ve[e1].ve_lastused < ve[e2].ve_lastused
    \/ ve[e1].ve_lastused = ve[e2].ve_lastused /\ ve[e1].ve_offset < ve[e2].ve_offset

\* the entries none is older than
Oldest == {e \in Allocated : \A f \in Allocated : ~Older(f, e)}

\* the cache is over its size and the oldest entry is being filled
EvictBlocked ==
    /\ zfs_vdev_cache_size # 0
    /\ Cardinality(Allocated) * VCBS > zfs_vdev_cache_size
    /\ \E e \in Oldest : ve[e].ve_fill_io # NULL

\* C12: a read that finds no entry while the cache is over its size and the
\* oldest entry is being filled returns ENOMEM, and nothing is evicted or
\* allocated, whether or not other entries could be evicted.
C12_EvictBlocked ==
    [][\A r \in ReqIds :
          (ReadLooksUp(r) /\ ReadFind(r) = NULL /\ EvictBlocked) =>
              /\ zio'[r].ret = "ENOMEM"
              /\ UNCHANGED <<ve, vc_offset_tree, vc_lastused_tree, fio>>]_vars

\* a read was declined with ENOMEM although an entry that is not being filled
\* is in the cache: the oldest entry is being filled
C12_Witness ==
    /\ EvictBlocked
    /\ \E e \in Allocated : ve[e].ve_fill_io = NULL /\ ve[e].ve_hits >= 1
    /\ \E r \in ReqIds : zio[r].ret = "ENOMEM"

\* the thread that runs vdev_cache_read for zio r holds vc_lock
ReadHoldsLock(r) == vc_lock = <<"read", r>>

\* the thread that runs vdev_cache_fill for child c holds vc_lock
FillHoldsLock(c) == vc_lock = <<"fill", c>>

\* C13: the thread that starts a child read or resumes a zio does not hold
\* vc_lock when it does so: zio_nowait and the zio_execute of a hit come after
\* the mutex_exit of vdev_cache_read, and the zio_execute of every delegate
\* after the mutex_exit of vdev_cache_fill.
C13_NotUnderLock ==
    [][/\ \A r \in ReqIds :
            /\ (fio[r].state # "issued" /\ fio'[r].state = "issued") => ~ReadHoldsLock(r)
            /\ (zio'[r].executed > zio[r].executed /\ resumed' = resumed) =>
                  ~ReadHoldsLock(r)
       /\ \A c \in ReqIds :
            resumed'[c] # resumed[c] => ~FillHoldsLock(c)]_vars

\* a hit was resumed inline and a child read was started and has resumed its
\* zio, each after its thread had released the lock
C13_Witness ==
    /\ vdc_stats.hits >= 1
    /\ \E r \in ReqIds : zio[r].copies = 1 /\ zio[r].executed = 1 /\ resumed[r] = <<>>
                          /\ fio[r].state = "none"
    /\ \E c \in ReqIds : fio[c].state = "done" /\ resumed[c] # <<>>

\* C14 as stated: a read that takes the lock and finds the entry an earlier
\* read of its block allocated is delegated to that read's fill or served as a
\* hit.
C14_DelegatedOrHit ==
    [][\A r \in ReqIds :
          (ReadLooksUp(r) /\ ReadFind(r) # NULL) =>
              zio'[r].pc \in {"delegated", "hit"}]_vars

\* C14 amended: the read that took the lock first decided; a later read that
\* finds its entry starts no fill of its own and allocates nothing: it is
\* delegated to the first read's fill while that fill is in flight and no write
\* has marked the entry, declined with ESTALE when the entry is marked, and
\* served as a hit from the entry otherwise.
C14_FirstDecides ==
    [][\A r \in ReqIds :
          (ReadLooksUp(r) /\ ReadFind(r) # NULL) =>
              LET e == ReadFind(r)
              IN  /\ e # r
                  /\ fio'[r].state = "none"
                  /\ {x \in ReqIds : ve'[x].alloc} = Allocated
                  /\ ve[e].ve_missed_update = 1 =>
                        zio'[r].ret = "ESTALE" /\ attached' = attached
                  /\ (ve[e].ve_missed_update = 0 /\ ve[e].ve_fill_io # NULL) =>
                        /\ ve[e].ve_fill_io = e
                        /\ zio'[r].pc = "delegated"
                        /\ attached' = [attached EXCEPT ![e] = Append(@, r)]
                  /\ (ve[e].ve_missed_update = 0 /\ ve[e].ve_fill_io = NULL) =>
                        /\ zio'[r].pc = "hit"
                        /\ zio'[r].io_data = BlockRange(ve[e].ve_data, zio[r])
                        /\ attached' = attached]_vars

\* the first read of a block missed and its fill has completed; a second read
\* of the block took the lock afterwards and was served as a hit from that entry
C14_Witness ==
    \E q, r \in ReqIds :
        /\ q # r
        /\ ve[q].alloc /\ ve[q].ve_fill_io = NULL /\ ve[q].ve_hits = 2
        /\ Len(attached[q]) = 1
        /\ zio[r].pc = "hit"
        /\ P2ALIGN(zio[r].io_offset, VCBS) = ve[q].ve_offset

\* the step evicts entry e
Evicts(e) == ve[e].alloc /\ ~ve'[e].alloc

\* C15, the evictions: an entry that is evicted has no fill in flight and at
\* least one hit.
C15_EvictsIdle ==
    \A e \in ReqIds : Evicts(e) => (ve[e].ve_fill_io = NULL /\ ve[e].ve_hits >= 1)

\* C15, the fills: until the completion of a child read runs, the entry the
\* child names is allocated, names the child, has the child's offset and its
\* buffer is the child's buffer (the three ASSERTs of lines 228-230).
C15_FillFindsEntry ==
    \A c \in ReqIds :
        fio[c].state \in {"created", "issued", "iodone"} =>
            LET e == fio[c].io_private
            IN  /\ e \in Allocated
                /\ ve[e].ve_fill_io = c
                /\ ve[e].ve_offset = fio[c].io_offset
                /\ ve[e].ve_data = fio[c].io_data
                /\ ve[e].ve_hits = 0

\* C15: only entries with no fill in flight and a hit are evicted.
C15_EvictionTargets == [](C15_FillFindsEntry) /\ [][C15_EvictsIdle]_vars

\* vdev_cache_allocate has evicted the oldest entry, filled and hit once, while
\* the entry of an outstanding child read stayed in the cache
C15_Witness ==
    /\ nwrites = 0
    /\ ve[1].alloc /\ ve[1].ve_fill_io = 1 /\ fio[1].state \in {"issued", "iodone"}
    /\ ~ve[2].alloc /\ fio[2].state = "done" /\ fio[2].io_error = 0
    /\ ve[3].alloc

\* the step copies into zio r
CopiesTo(r) == zio'[r].copies > zio[r].copies

\* C16: vdev_cache_hit never copies from an entry whose fill is in flight.  A
\* read that finds an entry being filled is not served in that step; a
\* synchronous hit copies from an entry whose fill has completed without error;
\* and the fill completion that serves its list has cleared ve_fill_io.
C16_NoCopyWhileFilling ==
    [][/\ \A r \in ReqIds :
            (ReadLooksUp(r) /\ ReadFind(r) # NULL
               /\ ve[ReadFind(r)].ve_fill_io # NULL) =>
                  /\ ~CopiesTo(r)
                  /\ ve'[ReadFind(r)].ve_hits = ve[ReadFind(r)].ve_hits
                  /\ \/ zio'[r].pc = "delegated" /\ zio'[r].io_data = zio[r].io_data
                     \/ zio'[r].ret = "ESTALE"
       /\ \A r \in ReqIds :
            (ReadLooksUp(r) /\ CopiesTo(r)) =>
                  /\ ReadFind(r) # NULL
                  /\ ve[ReadFind(r)].ve_fill_io = NULL
                  /\ fio[ReadFind(r)].state \in {"resuming", "done"}
                  /\ fio[ReadFind(r)].io_error = 0
       /\ \A c \in ReqIds :
            (\E r \in ReqIds : CopiesTo(r) /\ r \in Range(attached[c])) =>
                  /\ FillServes(c)
                  /\ ve'[fio[c].io_private].ve_fill_io = NULL]_vars

\* a read was delegated while the entry was being filled and was served by the
\* fill completion; a later read of the block was served as a hit
C16_Witness ==
    \E c, r, h \in ReqIds :
        /\ attached[c] = <<c, r>>
        /\ zio[r].copies = 1
        /\ ve[c].alloc /\ ve[c].ve_fill_io = NULL /\ ve[c].ve_hits = 3
        /\ zio[h].pc = "hit" /\ zio[h].copies = 1

\* C17, the entries: whenever no operation holds vc_lock, an entry marked
\* ve_missed_update has a fill in flight.
C17_MarkedIsFilling ==
    vc_lock = NoOne =>
        \A e \in Allocated :
            ve[e].ve_missed_update = 1 =>
                /\ ve[e].ve_fill_io = e
                /\ FillOutstanding(e)

\* C17, the reads: vdev_cache_read returns ESTALE only for a block whose fill
\* is outstanding.
C17_StaleWhileFilling ==
    \A r \in ReqIds :
        (zio[r].ret # "ESTALE" /\ zio'[r].ret = "ESTALE") =>
            \E c \in ReqIds :
                /\ c # r
                /\ FillOutstanding(c)
                /\ fio[c].io_offset = P2ALIGN(zio[r].io_offset, VCBS)
                /\ ve[c].ve_fill_io = c

\* C17: a marked entry does not outlive its fill.
C17_MissedUpdate == [](C17_MarkedIsFilling) /\ [][C17_StaleWhileFilling]_vars

\* a read was declined with ESTALE, so an entry was marked; its fill has
\* completed, the lock is free and no entry the cache holds is marked
C17_Witness ==
    /\ vc_lock = NoOne
    /\ \E c \in ReqIds :
          /\ fio[c].state \in {"resuming", "done"}
          /\ fio[c].io_error = 0
          /\ ~ve[c].alloc
          /\ nwrites = 1 /\ wr.pc = "idle"
    /\ Allocated # {}
    /\ \A e \in Allocated : ve[e].ve_missed_update = 0
    /\ \E r \in ReqIds : zio[r].ret = "ESTALE"

\* C18, the order: the last-used tree lists the entries by (ve_lastused,
\* ve_offset), ties on ve_lastused broken by the smaller offset.
C18_LastUsedOrder ==
    \A i, j \in 1..Len(vc_lastused_tree) :
        i < j => Older(vc_lastused_tree[i], vc_lastused_tree[j])

\* C18, the steps: an allocation evicts at most one entry, the oldest, and
\* every hit leaves the entry stamped with the current tick.
C18_VictimAndStamp ==
    /\ \A r \in ReqIds :
          (ReadLooksUp(r) /\ zio'[r].pc = "miss") =>
              /\ Cardinality({e \in ReqIds : Evicts(e)}) <= 1
              /\ \A e \in ReqIds : Evicts(e) =>
                    (e \in Oldest /\ \A f \in Allocated \ {e} : Older(e, f))
              /\ ve'[r].ve_lastused = lbolt
    /\ \A e \in ReqIds :
          (ve[e].alloc /\ ve'[e].ve_hits > ve[e].ve_hits) => ve'[e].ve_lastused = lbolt

\* C18: the victim of an allocation is the least recently used entry.
C18_LRUVictim == [](C18_LastUsedOrder) /\ [][C18_VictimAndStamp]_vars

\* entry 1, at offset 0, was allocated first and stamped again at a later
\* tick by its fill completion; entry 2, at a larger offset and stamped at
\* tick 0, was the oldest when the third read allocated, and was evicted
C18_Witness ==
    /\ nwrites = 0
    /\ ve[1].alloc /\ ve[1].ve_fill_io = NULL
    /\ ve[1].ve_offset = 0 /\ ve[1].ve_lastused = MaxTick
    /\ ~ve[2].alloc /\ fio[2].state = "done" /\ fio[2].io_error = 0
    /\ ve[3].alloc

\* the block of entry e lies inside the aligned range of write w
InWriteRange(e, w) ==
    /\ (w.io_offset \div VCBS) * VCBS <= e.ve_offset
    /\ e.ve_offset + VCBS <= ((w.io_offset + w.io_size + VCBS - 1) \div VCBS) * VCBS

\* byte k of entry e after write w has been copied over the overlap
Overwritten(e, w, k) ==
    IF w.io_offset <= e.ve_offset + k /\ e.ve_offset + k < w.io_offset + w.io_size
    THEN w.io_data[e.ve_offset + k - w.io_offset]
    ELSE e.ve_data[k]

\* C19: vdev_cache_write adds and removes no entry and changes no ve_lastused,
\* ve_hits or ve_fill_io; an entry outside the aligned range of the write is
\* unchanged; an entry inside it with no fill in flight has the bytes of the
\* overlap replaced by the written bytes and nothing else changed; an entry
\* inside it with a fill in flight has ve_missed_update set and nothing else
\* changed.
C19_WriteFrame ==
    [][WriteWalks =>
          /\ UNCHANGED <<vc_offset_tree, vc_lastused_tree, zio, fio, vdc_stats>>
          /\ \A e \in ReqIds :
                IF ~(ve[e].alloc /\ InWriteRange(ve[e], wr))
                THEN ve'[e] = ve[e]
                ELSE IF ve[e].ve_fill_io # NULL
                THEN ve'[e] = [ve[e] EXCEPT !.ve_missed_update = 1]
                ELSE ve'[e] = [ve[e] EXCEPT !.ve_data =
                                  [k \in 0..(VCBS - 1) |-> Overwritten(ve[e], wr, k)]]]_vars

\* a write over the second byte of one block and all of the next has been
\* applied: the entry of the first block keeps the byte the device filled in
\* (the device holds i at offset i) and holds the first written byte after it,
\* and the entry of the next block, which is being filled, is marked
C19_Witness ==
    /\ nwrites = 1 /\ wr.pc = "idle" /\ vc_lock = NoOne
    /\ \E e \in Allocated :
          /\ ve[e].ve_offset = VCBS
          /\ ve[e].ve_fill_io = NULL
          /\ ve[e].ve_data = [k \in 0..(VCBS - 1) |-> IF k = 0 THEN VCBS ELSE 10]
    /\ \E e \in Allocated : ve[e].ve_offset = 2 * VCBS /\ ve[e].ve_missed_update = 1

\* C20: with zfs_vdev_cache_size > 0 the cache never holds more than
\* floor(zfs_vdev_cache_size / VCBS) + 1 entries, fills in flight included.
C20_CountBound ==
    zfs_vdev_cache_size > 0 =>
        /\ Len(vc_offset_tree) <= (zfs_vdev_cache_size \div VCBS) + 1
        /\ Cardinality(Allocated) <= (zfs_vdev_cache_size \div VCBS) + 1

\* three reads of three blocks have allocated; the third allocation found
\* the cache over its size and evicted the second entry while the first stayed;
\* the cache holds as many entries as the bound allows, one being filled
C20_Witness ==
    /\ zfs_vdev_cache_size > 0
    /\ Len(vc_offset_tree) = (zfs_vdev_cache_size \div VCBS) + 1
    /\ \A r \in ReqIds : fio[r].state # "none"
    /\ ve[1].alloc /\ ~ve[2].alloc /\ ve[3].ve_fill_io = 3
    /\ nwrites = 0
    /\ \A r \in ReqIds : fio[r].io_error = 0
====
